---- MODULE Spec2Model ----
(***************************************************************************)
(* Battle Decks: the GameSession Durable Object (src/unnamed/part_004,     *)
(* lines 133-859 = src/game-session.ts) and the worker routes that call it *)
(* (src/unnamed/part_002 = src/index.ts).                                  *)
(*                                                                         *)
(* One Durable Object serves one room code.  Its JavaScript runs on one    *)
(* thread; the SQLite calls (this.sql.exec) are synchronous, so a handler  *)
(* runs without interruption from one external await to the next.  The     *)
(* only external awaits of the class are the two env.DECKS.get calls of    *)
(* startGame (lines 383 and 406): there the handler is suspended and other *)
(* events (RPC calls, the alarm) are delivered to the same object.         *)
(***************************************************************************)
EXTENDS Integers, Sequences, FiniteSets, Bags, TLC

(***************************************************************************)
(* Bounds of the model.                                                    *)
(***************************************************************************)
\* the clock stops advancing once the next deadline lies beyond MaxNow
MaxNow == 110000
\* startGame calls that may be suspended on env.DECKS.get at the same time
MaxInflight == 1
\* startGame is called with maxSlides 1 (the first slide is the last) or
\* MaxSlidesArg
MaxSlidesArg == 3
\* calculateSimilarity is called with embeddings of length 0..MaxDim
MaxDim == 2
\* generateAdjacencyList is called with decks of 1..MaxDeckSize slides
MaxDeckSize == 5
\* upload-slide requests the worker receives for the deck
MaxUploads == 3

(***************************************************************************)
(* Program constants.                                                      *)
(***************************************************************************)
PresentationMs == 45000
VotingMs == 10000
InitialMaxSlides == 10

RoomCode == "ABC123"        \* the room code createGameSession names the object by
DoId == "do-hex-id"         \* this.ctx.id.toString()
SessionIds == {RoomCode, DoId}

NULL == [null |-> TRUE]     \* JavaScript null (objects and rows)
NullStr == "null"           \* JavaScript null (strings)

Voters == {"v1", "v2"}
Choices == {"logical", "chaotic"}
Conns == {"c1"}
MaxSlidesArgs == {1, MaxSlidesArg}

VotingClosedError == "Voting is not currently open"
AlreadyVotedError == "User has already voted"
NotInitializedError == "Session not initialized"
SessionNotFoundError == "Session not found"
DeckNotFoundError == "Deck not found"
DeckNotReadyError == "Deck is not ready"
AdjacencyNotFoundError == "Deck adjacency data not found"
DeckLoadError == "Failed to load deck"

VARIABLES
    gameState,      \* this.gameState: NULL or the in-memory GameState
    roomCode,       \* this.roomCode: NullStr or the room code
    adjacency,      \* SQL table adjacency: slide_id -> [logical, chaotic]
    game_session,   \* SQL table game_session: session_id -> row or NULL
    do_metadata,    \* SQL table do_metadata, row 'room_code': value or NullStr
    alarm,          \* ctx.storage alarm: 0 (none) or the time it is due
    now,            \* Date.now()
    inflight,       \* bag of the startGame calls suspended on env.DECKS.get
    sockets,        \* ctx.getWebSockets(): the accepted connections
    winner,         \* the `winner` the last step determined ("none": none)
    request,        \* the event the last step handled
    response,       \* the Response the last step returned (NULL: none)
    effects,        \* what the last step did, in program order
    failing,        \* the accepted connections whose send() throws
    metadata,       \* KV key deck:<id>:metadata of the deck being uploaded
    uploads,        \* the upload-slide requests the worker is handling
    ai              \* the last call of the similarity functions and its result

vars == <<gameState, roomCode, adjacency, game_session, do_metadata, alarm,
          now, inflight, sockets, winner, request, response, effects,
          failing, metadata, uploads, ai>>

\* what the GameSession object does not touch: the deck API's KV entry and
\* requests, and the AI processor's functions
aux == <<metadata, uploads, ai>>

(***************************************************************************)
(* JavaScript Set<string> keeps insertion order: modelled as a sequence    *)
(* without repetitions.                                                    *)
(***************************************************************************)
Range(s) == {s[i] : i \in 1..Len(s)}

SetAdd(s, x) == IF x \in Range(s) THEN s ELSE Append(s, x)

RECURSIVE NewSet(_)
NewSet(arr) ==
    IF arr = <<>> THEN <<>>
    ELSE SetAdd(NewSet(SubSeq(arr, 1, Len(arr) - 1)), arr[Len(arr)])

ArrayFrom(s) == s

(***************************************************************************)
(* The similarity graphs.                                                  *)
(***************************************************************************)
Edge(l, c) == [logical |-> l, chaotic |-> c]

MockSlides ==
    [s \in {"slide_1", "slide_2", "slide_3", "slide_4", "slide_5",
            "slide_6", "slide_7", "slide_8", "slide_9", "slide_10"} |->
        CASE s = "slide_1" -> Edge(<<"slide_2", "slide_3", "slide_4">>, <<"slide_8", "slide_9", "slide_10">>)
          [] s = "slide_2" -> Edge(<<"slide_1", "slide_3", "slide_5">>, <<"slide_7", "slide_9", "slide_10">>)
          [] s = "slide_3" -> Edge(<<"slide_1", "slide_2", "slide_6">>, <<"slide_8", "slide_10", "slide_7">>)
          [] s = "slide_4" -> Edge(<<"slide_1", "slide_5", "slide_6">>, <<"slide_9", "slide_10", "slide_8">>)
          [] s = "slide_5" -> Edge(<<"slide_2", "slide_4", "slide_6">>, <<"slide_7", "slide_8", "slide_10">>)
          [] s = "slide_6" -> Edge(<<"slide_3", "slide_4", "slide_5">>, <<"slide_7", "slide_8", "slide_9">>)
          [] s = "slide_7" -> Edge(<<"slide_8", "slide_9", "slide_10">>, <<"slide_1", "slide_2", "slide_3">>)
          [] s = "slide_8" -> Edge(<<"slide_7", "slide_9", "slide_10">>, <<"slide_1", "slide_3", "slide_4">>)
          [] s = "slide_9" -> Edge(<<"slide_7", "slide_8", "slide_10">>, <<"slide_2", "slide_4", "slide_5">>)
          [] OTHER         -> Edge(<<"slide_7", "slide_8", "slide_9">>, <<"slide_3", "slide_5", "slide_6">>)]

\* A deck processed with no slide uploaded: generateAdjacencyList([]) = {}.
EmptyAdjacency == [s \in {} |-> Edge(<<>>, <<>>)]

\* A deck processed with two slides: each slide has the other one as its only
\* neighbour, so slice(0, 3) and slice(-3).reverse() both give that slide.
TwoSlideAdjacency ==
    [s \in {"slide_1", "slide_2"} |->
        IF s = "slide_1" THEN Edge(<<"slide_2">>, <<"slide_2">>)
        ELSE Edge(<<"slide_1">>, <<"slide_1">>)]

\* The KV namespace DECKS: key deck:<id>:metadata (its status, "absent" when
\* the key is missing) and key deck:<id>:adjacency.
DeckIds == {"default", "deckA", "deckE", "deckP", "deckN"}

\* mutant of DeckStatus: every deck is taken to be ready
DeckStatusAllReady(deckId) == "ready"

DeckStatus(deckId) ==
    CASE deckId \in {"deckA", "deckE"} -> "ready"
      [] deckId = "deckP" -> "processing"
      [] OTHER            -> "absent"

DeckHasAdjacency(deckId) == DeckStatus(deckId) = "ready"

DeckAdjacency(deckId) ==
    IF deckId = "deckA" THEN TwoSlideAdjacency ELSE EmptyAdjacency

(***************************************************************************)
(* GameState and its persisted row.                                        *)
(***************************************************************************)
NoVotes == [logical |-> 0, chaotic |-> 0]

InitialGameState(sessionId) ==
    [sessionId    |-> sessionId,
     currentSlide |-> "slide_1",
     usedSlides   |-> <<"slide_1">>,
     phase        |-> "waiting",
     votes        |-> NoVotes,
     voters       |-> {},
     votingOpen   |-> FALSE,
     timerEnd     |-> 0,
     slideCount   |-> 1,
     maxSlides    |-> InitialMaxSlides]

\* the row saveGameState writes (INSERT OR REPLACE ... VALUES ...)
GameRow(gs) ==
    [session_id    |-> gs.sessionId,
     current_slide |-> gs.currentSlide,
     used_slides   |-> ArrayFrom(gs.usedSlides),
     phase         |-> gs.phase,
     slide_count   |-> gs.slideCount,
     max_slides    |-> gs.maxSlides,
     timer_end     |-> gs.timerEnd]

\* the table after saveGameState; a no-op when this.gameState is null
SavedTable(table, gs) ==
    IF gs = NULL THEN table
    ELSE [table EXCEPT ![gs.sessionId] = GameRow(gs)]

\* the GameState loadGameState builds from a row
StateFromRow(row) ==
    [sessionId    |-> row.session_id,
     currentSlide |-> row.current_slide,
     usedSlides   |-> NewSet(row.used_slides),
     phase        |-> row.phase,
     votes        |-> NoVotes,
     voters       |-> {},
     votingOpen   |-> FALSE,
     timerEnd     |-> row.timer_end,
     slideCount   |-> row.slide_count,
     maxSlides    |-> row.max_slides]

\* mutant of RecoveredRoomCode: the do_metadata row is not read
RecoveredNothing(rc, meta) == rc

\* recoverRoomCodeFromStorage: .one() throws when the row is missing and the
\* catch leaves this.roomCode as it was
RecoveredRoomCode(rc, meta) == IF meta # NullStr THEN meta ELSE rc

\* loadGameState: the fields of the object after the call
LoadGameState(gs, rc, meta, table) ==
    LET rc1 == IF rc = NullStr THEN RecoveredRoomCode(rc, meta) ELSE rc
        sessionId == IF rc1 # NullStr THEN rc1 ELSE DoId
        result == table[sessionId]
        restore == result # NULL /\ rc1 = NullStr /\ result.session_id # DoId
    IN  IF result = NULL
        THEN [gameState |-> gs, roomCode |-> rc1, do_metadata |-> meta]
        ELSE [gameState   |-> StateFromRow(result),
              roomCode    |-> IF restore THEN result.session_id ELSE rc1,
              do_metadata |-> IF restore THEN result.session_id ELSE meta]

\* ensureGameStateLoaded
EnsureGameStateLoaded(gs, rc, meta, table) ==
    IF gs = NULL THEN LoadGameState(gs, rc, meta, table)
    ELSE [gameState |-> gs, roomCode |-> rc, do_metadata |-> meta]

Loaded == EnsureGameStateLoaded(gameState, roomCode, do_metadata, game_session)

\* getPublicGameState at time t
PublicGameState(gs, t) ==
    IF gs = NULL THEN NULL
    ELSE [sessionId     |-> gs.sessionId,
          currentSlide  |-> gs.currentSlide,
          phase         |-> gs.phase,
          votes         |-> gs.votes,
          timeRemaining |-> IF gs.timerEnd - t > 0 THEN gs.timerEnd - t ELSE 0,
          slideCount    |-> gs.slideCount,
          maxSlides     |-> gs.maxSlides,
          votingOpen    |-> gs.votingOpen]

\* entries of `effects`
Saved(gs) == [e |-> "save", row |-> GameRow(gs)]
AlarmSet(t) == [e |-> "setAlarm", at |-> t]
\* mutant of Broadcast: the first send that throws ends the loop
BroadcastAborts(type, data) ==
    [e |-> "broadcast", type |-> type, data |-> data,
     to |-> IF sockets \cap failing = {} THEN sockets ELSE {}]

\* broadcast: ws.send in a try/catch per connection; `to` is who received it
Broadcast(type, data) ==
    [e |-> "broadcast", type |-> type, data |-> data, to |-> sockets \ failing]

\* sendToSocket: socket.send in a try/catch
Sent(c, type, data) ==
    [e |-> "send", type |-> type, data |-> data, to |-> {c} \ failing]

Event(op) == [op |-> op]

Reply(op, status, error) == [op |-> op, status |-> status, error |-> error]

(***************************************************************************)
(* The state after construction of a fresh object: the tables are created, *)
(* the mock graph is loaded, no room code is stored.                       *)
(***************************************************************************)
\* no deck has been created through the deck API
NoDeck == NULL

Init ==
    /\ gameState = NULL
    /\ roomCode = NullStr
    /\ adjacency = MockSlides
    /\ game_session = [id \in SessionIds |-> NULL]
    /\ do_metadata = NullStr
    /\ alarm = 0
    /\ now = 0
    /\ inflight = EmptyBag
    /\ sockets = {}
    /\ winner = "none"
    /\ request = Event("constructor")
    /\ response = NULL
    /\ effects = <<>>
    /\ failing = {}
    /\ metadata = NoDeck
    /\ uploads = <<>>
    /\ ai = NULL

\* mutant of Initialize: a session the object already holds is kept
InitializeKeepsSession ==
    LET gs == IF gameState # NULL THEN gameState ELSE InitialGameState(RoomCode) IN
    /\ roomCode' = RoomCode
    /\ do_metadata' = RoomCode
    /\ gameState' = gs
    /\ game_session' = SavedTable(game_session, gs)
    /\ request' = Event("initialize")
    /\ response' = Reply("initialize", 200, "")
    /\ effects' = <<Saved(gs)>>
    /\ winner' = "none"
    /\ UNCHANGED <<adjacency, alarm, now, inflight, sockets>>
    /\ UNCHANGED <<failing, aux>>

\* initialize(roomCode), called by createGameSession with the object's name
Initialize ==
    LET gs == InitialGameState(RoomCode) IN
    /\ roomCode' = RoomCode
    /\ do_metadata' = RoomCode
    /\ gameState' = gs
    /\ game_session' = SavedTable(game_session, gs)
    /\ request' = Event("initialize")
    /\ response' = Reply("initialize", 200, "")
    /\ effects' = <<Saved(gs)>>
    /\ winner' = "none"
    /\ UNCHANGED <<adjacency, alarm, now, inflight, sockets>>
    /\ UNCHANGED <<failing, aux>>

\* The object is evicted (or hibernates) and is constructed again: the fields
\* start null, suspended calls are gone, and the constructor runs
\* initializeTables (loadMockDataIfNeeded) and recoverRoomCodeFromStorage
\* under blockConcurrencyWhile.
Recreate ==
    /\ gameState' = NULL
    /\ roomCode' = RecoveredRoomCode(NullStr, do_metadata)
    /\ adjacency' = IF DOMAIN adjacency = {} THEN MockSlides ELSE adjacency
    /\ inflight' = EmptyBag
    /\ request' = Event("constructor")
    /\ response' = NULL
    /\ effects' = <<>>
    /\ winner' = "none"
    /\ UNCHANGED <<game_session, do_metadata, alarm, now, sockets>>
    /\ UNCHANGED <<failing, aux>>

(***************************************************************************)
(* vote(userId, choice)                                                    *)
(***************************************************************************)
\* mutant of RecordVote: the voter is not recorded
RecordVoteTallyOnly(gs, userId, choice) ==
    [gs EXCEPT !.votes[choice] = @ + 1]

\* lines 489-490: this.gameState.votes[choice]++; this.gameState.voters.add(userId)
RecordVote(gs, userId, choice) ==
    [gs EXCEPT !.votes[choice] = @ + 1, !.voters = @ \cup {userId}]

\* mutant of VoteResult: the voters set is not consulted
VoteResultNoDuplicateCheck(gs, userId, choice) ==
    IF gs = NULL \/ ~gs.votingOpen
    THEN [gameState |-> gs, reply |-> Reply("vote", 400, VotingClosedError), effects |-> <<>>]
    ELSE LET gs1 == RecordVote(gs, userId, choice) IN
         [gameState |-> gs1,
          reply     |-> Reply("vote", 200, ""),
          effects   |-> <<Broadcast("voteUpdate", gs1.votes)>>]

\* mutant of VoteResult: votingOpen is not consulted
VoteResultNoOpenCheck(gs, userId, choice) ==
    IF gs = NULL
    THEN [gameState |-> gs, reply |-> Reply("vote", 400, VotingClosedError), effects |-> <<>>]
    ELSE IF userId \in gs.voters
    THEN [gameState |-> gs, reply |-> Reply("vote", 400, AlreadyVotedError), effects |-> <<>>]
    ELSE LET gs1 == RecordVote(gs, userId, choice) IN
         [gameState |-> gs1,
          reply     |-> Reply("vote", 200, ""),
          effects   |-> <<Broadcast("voteUpdate", gs1.votes)>>]

\* mutant of VoteResult: an accepted vote is not broadcast
VoteResultSilent(gs, userId, choice) ==
    IF gs = NULL \/ ~gs.votingOpen
    THEN [gameState |-> gs, reply |-> Reply("vote", 400, VotingClosedError), effects |-> <<>>]
    ELSE IF userId \in gs.voters
    THEN [gameState |-> gs, reply |-> Reply("vote", 400, AlreadyVotedError), effects |-> <<>>]
    ELSE LET gs1 == RecordVote(gs, userId, choice) IN
         [gameState |-> gs1, reply |-> Reply("vote", 200, ""), effects |-> <<>>]

\* the checks of vote, in program order, on the loaded state
VoteResult(gs, userId, choice) ==
    IF gs = NULL \/ ~gs.votingOpen
    THEN [gameState |-> gs, reply |-> Reply("vote", 400, VotingClosedError), effects |-> <<>>]
    ELSE IF userId \in gs.voters
    THEN [gameState |-> gs, reply |-> Reply("vote", 400, AlreadyVotedError), effects |-> <<>>]
    ELSE LET gs1 == RecordVote(gs, userId, choice) IN
         [gameState |-> gs1,
          reply     |-> Reply("vote", 200, ""),
          effects   |-> <<Broadcast("voteUpdate", gs1.votes)>>]

Vote(userId, choice) ==
    LET L == Loaded
        r == VoteResult(L.gameState, userId, choice)
    IN  /\ gameState' = r.gameState
        /\ roomCode' = L.roomCode
        /\ do_metadata' = L.do_metadata
        /\ request' = [op |-> "vote", userId |-> userId, choice |-> choice]
        /\ response' = r.reply
        /\ effects' = r.effects
        /\ winner' = "none"
        /\ UNCHANGED <<adjacency, game_session, alarm, now, inflight, sockets>>
        /\ UNCHANGED <<failing, aux>>

(***************************************************************************)
(* getStatus()                                                             *)
(***************************************************************************)
\* mutant of GetStatus: the state is loaded from storage on every call
GetStatusReloads ==
    LET L == LoadGameState(gameState, roomCode, do_metadata, game_session) IN
    /\ gameState' = L.gameState
    /\ roomCode' = L.roomCode
    /\ do_metadata' = L.do_metadata
    /\ request' = Event("getStatus")
    /\ response' = IF L.gameState = NULL
                   THEN Reply("getStatus", 404, SessionNotFoundError)
                   ELSE Reply("getStatus", 200, "")
    /\ effects' = <<>>
    /\ winner' = "none"
    /\ UNCHANGED <<adjacency, game_session, alarm, now, inflight, sockets>>
    /\ UNCHANGED <<failing, aux>>

GetStatus ==
    LET L == Loaded IN
    /\ gameState' = L.gameState
    /\ roomCode' = L.roomCode
    /\ do_metadata' = L.do_metadata
    /\ request' = Event("getStatus")
    /\ response' = IF L.gameState = NULL
                   THEN Reply("getStatus", 404, SessionNotFoundError)
                   ELSE Reply("getStatus", 200, "")
    /\ effects' = <<>>
    /\ winner' = "none"
    /\ UNCHANGED <<adjacency, game_session, alarm, now, inflight, sockets>>
    /\ UNCHANGED <<failing, aux>>

(***************************************************************************)
(* startGame(deckId, maxSlides)                                            *)
(***************************************************************************)
\* lines 448-450
StartedState(gs, maxSlides, t) ==
    [gs EXCEPT !.phase = "presenting", !.maxSlides = maxSlides,
               !.timerEnd = t + PresentationMs]

\* lines 448-461: the end of startGame, run without suspension
StartGameFinish(gs, adj, maxSlides) ==
    LET gs1 == StartedState(gs, maxSlides, now) IN
    /\ gameState' = gs1
    /\ adjacency' = adj
    /\ game_session' = SavedTable(game_session, gs1)
    /\ alarm' = now + PresentationMs
    /\ response' = Reply("startGame", 200, "")
    /\ effects' = <<Saved(gs1), AlarmSet(now + PresentationMs),
                    Broadcast("gameState", PublicGameState(gs1, now))>>

\* whether startGame looks the deck up in KV (line 378)
LoadsDeck(deckId) == deckId # "" /\ deckId # "default"

\* a suspended call: its arguments and the lookup it waits for
Call(deckId, maxSlides, pc) == [deckId |-> deckId, maxSlides |-> maxSlides, pc |-> pc]

Suspended == BagToSet(inflight)

\* the event of a suspended call going on after its lookup (kv: the lookup
\* returned; otherwise it threw)
Resumed(call, kvOk) ==
    [op |-> "startGame:resume", deckId |-> call.deckId,
     maxSlides |-> call.maxSlides, kv |-> kvOk]

\* lines 365-383: the call arrives; it ends at once on an uninitialized
\* session, runs to its end on the default deck, and is otherwise suspended
\* on env.DECKS.get(`deck:${deckId}:metadata`)
StartGameCall(deckId, maxSlides) ==
    LET L == Loaded IN
    /\ roomCode' = L.roomCode
    /\ do_metadata' = L.do_metadata
    /\ winner' = "none"
    /\ request' = [op |-> "startGame", deckId |-> deckId, maxSlides |-> maxSlides]
    /\ UNCHANGED <<now, sockets, failing, aux>>
    /\ IF L.gameState = NULL
       THEN /\ gameState' = NULL
            /\ response' = Reply("startGame", 400, NotInitializedError)
            /\ effects' = <<>>
            /\ UNCHANGED <<adjacency, game_session, alarm, inflight>>
       ELSE IF LoadsDeck(deckId)
       THEN /\ BagCardinality(inflight) < MaxInflight
            /\ gameState' = L.gameState
            /\ inflight' = inflight (+) SetToBag({Call(deckId, maxSlides, "metadata")})
            /\ response' = NULL
            /\ effects' = <<>>
            /\ UNCHANGED <<adjacency, game_session, alarm>>
       ELSE /\ StartGameFinish(L.gameState, adjacency, maxSlides)
            /\ UNCHANGED inflight

\* a suspended call ends with an error response
StartGameFails(call, status, error) ==
    /\ inflight' = inflight (-) SetToBag({call})
    /\ response' = Reply("startGame", status, error)
    /\ effects' = <<>>
    /\ winner' = "none"
    /\ UNCHANGED <<gameState, roomCode, adjacency, game_session, do_metadata,
                   alarm, now, sockets>>

\* lines 383-406: the metadata lookup returns (or throws)
StartGameMetadata(call, kvOk) ==
    /\ call \in Suspended
    /\ call.pc = "metadata"
    /\ request' = Resumed(call, kvOk)
    /\ UNCHANGED <<failing, aux>>
    /\ LET status == DeckStatus(call.deckId) IN
       IF ~kvOk THEN StartGameFails(call, 500, DeckLoadError)
       ELSE IF status = "absent" THEN StartGameFails(call, 404, DeckNotFoundError)
       ELSE IF status # "ready" THEN StartGameFails(call, 400, DeckNotReadyError)
       ELSE /\ inflight' = (inflight (-) SetToBag({call}))
                           (+) SetToBag({Call(call.deckId, call.maxSlides, "adjacency")})
            /\ response' = NULL
            /\ effects' = <<>>
            /\ winner' = "none"
            /\ UNCHANGED <<gameState, roomCode, adjacency, game_session,
                           do_metadata, alarm, now, sockets>>

\* lines 406-461: the adjacency lookup returns (or throws); the table is
\* replaced by the deck's graph and the game starts
StartGameAdjacency(call, kvOk) ==
    /\ call \in Suspended
    /\ call.pc = "adjacency"
    /\ request' = Resumed(call, kvOk)
    /\ UNCHANGED <<failing, aux>>
    /\ IF ~kvOk THEN StartGameFails(call, 500, DeckLoadError)
       ELSE IF ~DeckHasAdjacency(call.deckId)
       THEN StartGameFails(call, 404, AdjacencyNotFoundError)
       ELSE /\ StartGameFinish(gameState, DeckAdjacency(call.deckId), call.maxSlides)
            /\ inflight' = inflight (-) SetToBag({call})
            /\ winner' = "none"
            /\ UNCHANGED <<roomCode, do_metadata, now, sockets>>

(***************************************************************************)
(* alarm()                                                                 *)
(***************************************************************************)
\* mutant of VotingState: the voters of the round before are kept
VotingStateKeepsVoters(gs, t) ==
    [gs EXCEPT !.votingOpen = TRUE, !.votes = NoVotes, !.timerEnd = t + VotingMs]

\* startVotingTimer, lines 731-734
VotingState(gs, t) ==
    [gs EXCEPT !.votingOpen = TRUE, !.voters = {}, !.votes = NoVotes,
               !.timerEnd = t + VotingMs]

\* mutant of Winner: a tie goes to logical
WinnerTieLogical(votes) == IF votes.logical >= votes.chaotic THEN "logical" ELSE "chaotic"

\* line 746
Winner(votes) == IF votes.logical > votes.chaotic THEN "logical" ELSE "chaotic"

\* mutant of FirstUnused: the used slides are not consulted
FirstOption(options, used) ==
    IF options = <<>> THEN NullStr ELSE Head(options)

\* mutant of FirstUnused: with every option used, the last option is taken
FirstUnusedOrLast(options, used) ==
    LET unused == {i \in 1..Len(options) : options[i] \notin Range(used)} IN
    IF options = <<>> THEN NullStr
    ELSE IF unused = {} THEN options[Len(options)]
    ELSE options[CHOOSE i \in unused : \A j \in unused : i <= j]

\* the first element of `options` that is not in `used`, NullStr if none
RECURSIVE FirstUnused(_, _)
FirstUnused(options, used) ==
    IF options = <<>> THEN NullStr
    ELSE IF Head(options) \notin Range(used) THEN Head(options)
    ELSE FirstUnused(Tail(options), used)

\* getNextSlide: the slide id, NullStr for null; with no adjacency row of
\* currentSlide, SqlStorageCursor.one() throws ("Throw")
Throw == "throw"

GetNextSlide(gs, adj, choice) ==
    IF gs = NULL THEN NullStr
    ELSE IF gs.currentSlide \notin DOMAIN adj THEN Throw
    ELSE FirstUnused(adj[gs.currentSlide][choice], gs.usedSlides)

\* mutant of AdvancedState: the phase is left as it was
AdvancedStateKeepsPhase(gs, nextSlide, t) ==
    [gs EXCEPT !.currentSlide = nextSlide,
               !.usedSlides = SetAdd(@, nextSlide),
               !.slideCount = @ + 1,
               !.timerEnd = t + PresentationMs]

\* mutant of AdvancedState: the new slide is not added to usedSlides
AdvancedStateKeepsUsed(gs, nextSlide, t) ==
    [gs EXCEPT !.currentSlide = nextSlide,
               !.slideCount = @ + 1,
               !.phase = "presenting",
               !.timerEnd = t + PresentationMs]

\* lines 760-764
AdvancedState(gs, nextSlide, t) ==
    [gs EXCEPT !.currentSlide = nextSlide,
               !.usedSlides = SetAdd(@, nextSlide),
               !.slideCount = @ + 1,
               !.phase = "presenting",
               !.timerEnd = t + PresentationMs]

\* what a handler leaves behind
Outcome(gs, table, al, w, eff) ==
    [gameState |-> gs, game_session |-> table, alarm |-> al, winner |-> w,
     effects |-> eff]

\* processVotesAndAdvance at time t (the alarm that fired is gone: alarm 0)
ProcessVotesAndAdvance(gs, table, adj, t) ==
    LET gs1 == [gs EXCEPT !.votingOpen = FALSE]
        w == Winner(gs1.votes)
        nextSlide == GetNextSlide(gs1, adj, w)
    IN  IF nextSlide = Throw
        THEN Outcome(gs1, table, 0, w, <<>>)
        ELSE IF nextSlide = NullStr \/ gs1.slideCount >= gs1.maxSlides
        THEN LET gs2 == [gs1 EXCEPT !.phase = "finished"] IN
             Outcome(gs2, SavedTable(table, gs2), 0, w,
                     <<Broadcast("gameState", PublicGameState(gs2, t)), Saved(gs2)>>)
        ELSE LET gs2 == AdvancedState(gs1, nextSlide, t) IN
             Outcome(gs2, SavedTable(table, gs2), t + PresentationMs, w,
                     <<Saved(gs2), AlarmSet(t + PresentationMs),
                       Broadcast("gameState", PublicGameState(gs2, t)),
                       Broadcast("slideChange", nextSlide)>>)

\* mutant of PresentingAlarm: the switch to voting is not saved
PresentingAlarmUnsaved(gs, table, t) ==
    IF gs.slideCount >= gs.maxSlides
    THEN LET gs1 == [gs EXCEPT !.phase = "finished"] IN
         Outcome(gs1, SavedTable(table, gs1), 0, "none",
                 <<Saved(gs1), Broadcast("gameState", PublicGameState(gs1, t))>>)
    ELSE LET gs1 == [gs EXCEPT !.phase = "voting"]
             gs2 == VotingState(gs1, t)
         IN  Outcome(gs2, table, t + VotingMs, "none",
                     <<AlarmSet(t + VotingMs),
                       Broadcast("gameState", PublicGameState(gs2, t))>>)

\* lines 602-616: the alarm in phase presenting
PresentingAlarm(gs, table, t) ==
    IF gs.slideCount >= gs.maxSlides
    THEN LET gs1 == [gs EXCEPT !.phase = "finished"] IN
         Outcome(gs1, SavedTable(table, gs1), 0, "none",
                 <<Saved(gs1), Broadcast("gameState", PublicGameState(gs1, t))>>)
    ELSE LET gs1 == [gs EXCEPT !.phase = "voting"]
             gs2 == VotingState(gs1, t)
         IN  Outcome(gs2, SavedTable(table, gs2), t + VotingMs, "none",
                     <<Saved(gs1), Saved(gs2), AlarmSet(t + VotingMs),
                       Broadcast("gameState", PublicGameState(gs2, t))>>)

\* mutant of AlarmHandler: without a state the alarm begins a session under
\* the object's id
AlarmHandlerCreates(gs, table, adj, t) ==
    IF gs = NULL
    THEN LET gs1 == InitialGameState(DoId) IN
         Outcome(gs1, SavedTable(table, gs1), 0, "none", <<Saved(gs1)>>)
    ELSE IF gs.phase = "presenting" THEN PresentingAlarm(gs, table, t)
    ELSE IF gs.phase = "voting" THEN ProcessVotesAndAdvance(gs, table, adj, t)
    ELSE Outcome(gs, table, 0, "none", <<>>)

\* lines 595-620: the body of alarm() on the loaded state
AlarmHandler(gs, table, adj, t) ==
    IF gs = NULL THEN Outcome(gs, table, 0, "none", <<>>)
    ELSE IF gs.phase = "presenting" THEN PresentingAlarm(gs, table, t)
    ELSE IF gs.phase = "voting" THEN ProcessVotesAndAdvance(gs, table, adj, t)
    ELSE Outcome(gs, table, 0, "none", <<>>)

\* the pending alarm is due and the runtime calls alarm()
Alarm ==
    /\ alarm # 0
    /\ now >= alarm
    /\ LET rc == IF roomCode = NullStr
                 THEN RecoveredRoomCode(roomCode, do_metadata) ELSE roomCode
           L == EnsureGameStateLoaded(gameState, rc, do_metadata, game_session)
           o == AlarmHandler(L.gameState, game_session, adjacency, now)
       IN  /\ gameState' = o.gameState
           /\ roomCode' = L.roomCode
           /\ do_metadata' = L.do_metadata
           /\ game_session' = o.game_session
           /\ alarm' = o.alarm
           /\ winner' = o.winner
           /\ effects' = o.effects
           /\ request' = [op |-> "alarm", loaded |-> (gameState = NULL)]
           /\ response' = NULL
    /\ UNCHANGED <<adjacency, now, inflight, sockets>>
    /\ UNCHANGED <<failing, aux>>

(***************************************************************************)
(* fetch(): a viewer's WebSocket is accepted and sent the game state       *)
(***************************************************************************)
\* mutant of Attach: the connection is accepted and sent nothing
AttachSilent(c) ==
    LET L == Loaded IN
    /\ c \notin sockets
    /\ sockets' = sockets \cup {c}
    /\ gameState' = L.gameState
    /\ roomCode' = L.roomCode
    /\ do_metadata' = L.do_metadata
    /\ request' = [op |-> "fetch", conn |-> c]
    /\ response' = Reply("fetch", 101, "")
    /\ effects' = <<>>
    /\ winner' = "none"
    /\ UNCHANGED <<adjacency, game_session, alarm, now, inflight>>
    /\ UNCHANGED <<failing, aux>>

Attach(c) ==
    LET L == Loaded IN
    /\ c \notin sockets
    /\ sockets' = sockets \cup {c}
    /\ gameState' = L.gameState
    /\ roomCode' = L.roomCode
    /\ do_metadata' = L.do_metadata
    /\ request' = [op |-> "fetch", conn |-> c]
    /\ response' = Reply("fetch", 101, "")
    /\ effects' = IF L.gameState = NULL THEN <<>>
                  ELSE <<Sent(c, "gameState", PublicGameState(L.gameState, now))>>
    /\ winner' = "none"
    /\ UNCHANGED <<adjacency, game_session, alarm, now, inflight>>
    /\ UNCHANGED <<failing, aux>>

\* the viewer disconnects (webSocketClose does nothing)
Detach(c) ==
    /\ c \in sockets
    /\ sockets' = sockets \ {c}
    /\ failing' = failing \ {c}
    /\ UNCHANGED aux
    /\ request' = [op |-> "close", conn |-> c]
    /\ response' = NULL
    /\ effects' = <<>>
    /\ winner' = "none"
    /\ UNCHANGED <<gameState, roomCode, adjacency, game_session, do_metadata,
                   alarm, now, inflight>>

\* time passes until the pending alarm is due
Tick ==
    /\ alarm # 0
    /\ now < alarm
    /\ alarm <= MaxNow
    /\ now' = alarm
    /\ request' = Event("tick")
    /\ response' = NULL
    /\ effects' = <<>>
    /\ winner' = "none"
    /\ UNCHANGED <<gameState, roomCode, adjacency, game_session, do_metadata,
                   alarm, inflight, sockets>>
    /\ UNCHANGED <<failing, aux>>

\* the arguments startGame is called with: the default deck with either
\* maxSlides, a deck of the KV namespace with MaxSlidesArg
StartGameArgs ==
    {a \in DeckIds \X MaxSlidesArgs : LoadsDeck(a[1]) => a[2] = MaxSlidesArg}

Next ==
    \/ Initialize
    \/ Recreate
    \/ Tick
    \/ \E u \in Voters, c \in Choices : Vote(u, c)
    \/ GetStatus
    \/ \E a \in StartGameArgs : StartGameCall(a[1], a[2])
    \/ \E call \in Suspended, ok \in BOOLEAN : StartGameMetadata(call, ok)
    \/ \E call \in Suspended, ok \in BOOLEAN : StartGameAdjacency(call, ok)
    \/ Alarm
    \/ \E c \in Conns : Attach(c)
    \/ \E c \in Conns : Detach(c)

Spec == Init /\ [][Next]_vars

(***************************************************************************)
(* The viewers of a session: several connections, sends that throw, and    *)
(* the messages a connection sends (webSocketMessage).                      *)
(***************************************************************************)
ViewerConns == {"c1", "c2"}

MessageTypes == {"ping", "join", "malformed"}

\* the peer of an accepted connection is gone: send() on it throws until the
\* runtime reports the close
SendFails(c) ==
    /\ c \in sockets \ failing
    /\ failing' = failing \cup {c}
    /\ request' = [op |-> "peerGone", conn |-> c]
    /\ response' = NULL
    /\ effects' = <<>>
    /\ winner' = "none"
    /\ UNCHANGED <<gameState, roomCode, adjacency, game_session, do_metadata,
                   alarm, now, inflight, sockets, aux>>

\* webSocketMessage(ws, message): the state is loaded first, whatever the
\* message; a ping is answered with a pong, a join is recorded on the
\* connection, a message that is not JSON is answered with an error event
WebSocketMessage(c, type) ==
    LET L == Loaded IN
    /\ c \in sockets
    /\ gameState' = L.gameState
    /\ roomCode' = L.roomCode
    /\ do_metadata' = L.do_metadata
    /\ request' = [op |-> "message", conn |-> c, type |-> type]
    /\ response' = NULL
    /\ effects' = CASE type = "ping" -> <<Sent(c, "pong", now)>>
                   [] type = "join" -> <<>>
                   [] OTHER -> <<Sent(c, "error", "Failed to process message")>>
    /\ winner' = "none"
    /\ UNCHANGED <<adjacency, game_session, alarm, now, inflight, sockets>>
    /\ UNCHANGED <<failing, aux>>

\* a game on the default deck, watched by the connections of ViewerConns
ViewerNext ==
    \/ Initialize
    \/ Recreate
    \/ Tick
    \/ \E u \in Voters, c \in Choices : Vote(u, c)
    \/ \E m \in MaxSlidesArgs : StartGameCall("default", m)
    \/ Alarm
    \/ \E c \in ViewerConns : Attach(c)
    \/ \E c \in ViewerConns : Detach(c)
    \/ \E c \in ViewerConns : SendFails(c)
    \/ \E c \in ViewerConns, t \in MessageTypes : WebSocketMessage(c, t)

ViewerSpec == Init /\ [][ViewerNext]_vars

(***************************************************************************)
(* The AI processor (src/unnamed/part_001 = src/ai-processor.ts): the pure *)
(* functions calculateSimilarity and generateAdjacencyList.  Embeddings    *)
(* have integer entries here; a similarity dot / (sqrt(m1) * sqrt(m2)) is  *)
(* kept as the pair of dot and m1 * m2 and two similarities are compared   *)
(* by their exact values.                                                  *)
(***************************************************************************)
\* what the GameSession object holds
session == <<gameState, roomCode, adjacency, game_session, do_metadata, alarm,
             now, inflight, sockets, winner, request, response, effects,
             failing>>

\* the embeddings calculateSimilarity is called with
Vectors == UNION {[1..n -> {-1, 0, 1}] : n \in 0..MaxDim}

\* the embeddings of the slides of a deck: one model, one dimension
DeckVectors == {<<0, 0>>, <<1, 0>>, <<0, 1>>, <<1, 1>>, <<-1, 0>>}

SlideId(i) == "slide_" \o ToString(i)

\* the SlideEmbedding[] processDeck builds for slide_1 .. slide_n
Decks ==
    UNION {{[i \in 1..n |-> [slideId |-> SlideId(i), embedding |-> e[i]]] :
               e \in [1..n -> DeckVectors]} : n \in 1..MaxDeckSize}

\* the Error calculateSimilarity throws
DimensionError == [error |-> "Embeddings must have the same dimension"]

\* the number NaN
NaN == [nan |-> TRUE]

\* the loop of lines 88-92: the sum of e1[i] * e2[i]
RECURSIVE DotProduct(_, _)
DotProduct(e1, e2) ==
    IF e1 = <<>> THEN 0
    ELSE Head(e1) * Head(e2) + DotProduct(Tail(e1), Tail(e2))

\* the number dot / sqrt(mag2)
Score(dot, mag2) == [dot |-> dot, mag2 |-> mag2]

\* mutant of CalculateSimilarity: no test for a zero magnitude (0 / 0)
CalculateSimilarityNoZeroCheck(embedding1, embedding2) ==
    IF Len(embedding1) # Len(embedding2) THEN DimensionError
    ELSE LET magnitude1 == DotProduct(embedding1, embedding1)
             magnitude2 == DotProduct(embedding2, embedding2)
         IN  IF magnitude1 = 0 \/ magnitude2 = 0 THEN NaN
             ELSE Score(DotProduct(embedding1, embedding2),
                        magnitude1 * magnitude2)

\* calculateSimilarity: DimensionError stands for the Error thrown
CalculateSimilarity(embedding1, embedding2) ==
    IF Len(embedding1) # Len(embedding2) THEN DimensionError
    ELSE LET magnitude1 == DotProduct(embedding1, embedding1)
             magnitude2 == DotProduct(embedding2, embedding2)
         IN  IF magnitude1 = 0 \/ magnitude2 = 0 THEN Score(0, 1)
             ELSE Score(DotProduct(embedding1, embedding2),
                        magnitude1 * magnitude2)

\* a.score > b.score, by cross-multiplying the signed squares
Sgn(x) == IF x > 0 THEN 1 ELSE IF x < 0 THEN -1 ELSE 0

Greater(a, b) ==
    /\ a # NaN
    /\ b # NaN
    /\ Sgn(a.dot) * a.dot * a.dot * b.mag2 > Sgn(b.dot) * b.dot * b.dot * a.mag2

\* similarities.sort((a, b) => b.score - a.score): stable, high to low; the
\* place of element i is after the elements of greater score and the earlier
\* elements of equal score
SortByScore(similarities) ==
    LET n == Len(similarities)
        Place(i) ==
            1 + Cardinality({j \in 1..n :
                    \/ Greater(similarities[j].score, similarities[i].score)
                    \/ /\ j < i
                       /\ ~Greater(similarities[i].score, similarities[j].score)})
    IN  [k \in 1..n |-> similarities[CHOOSE i \in 1..n : Place(i) = k]]

\* mutant of Similarities: the slide is compared with itself too
SimilaritiesWithSelf(embeddings, i) ==
    [j \in 1..Len(embeddings) |->
        [slideId |-> embeddings[j].slideId,
         score   |-> CalculateSimilarity(embeddings[i].embedding,
                                         embeddings[j].embedding)]]

\* lines 118-131: the scores of the slides other than slide i, in deck order
Similarities(embeddings, i) ==
    SelectSeq([j \in 1..Len(embeddings) |->
                  [slideId |-> embeddings[j].slideId,
                   score   |-> CalculateSimilarity(embeddings[i].embedding,
                                                   embeddings[j].embedding)]],
              LAMBDA s : s.slideId # embeddings[i].slideId)

\* slice(0, 3).map(s => s.slideId)
Top3(sorted) ==
    [k \in 1..(IF Len(sorted) < 3 THEN Len(sorted) ELSE 3) |-> sorted[k].slideId]

\* slice(-3).reverse().map(s => s.slideId)
Bottom3(sorted) ==
    [k \in 1..(IF Len(sorted) < 3 THEN Len(sorted) ELSE 3) |->
        sorted[Len(sorted) - k + 1].slideId]

\* generateAdjacencyList: the entry of a slide id is the one written last
GenerateAdjacencyList(embeddings) ==
    [id \in {embeddings[i].slideId : i \in 1..Len(embeddings)} |->
        LET last == CHOOSE i \in 1..Len(embeddings) :
                        /\ embeddings[i].slideId = id
                        /\ \A j \in (i + 1)..Len(embeddings) :
                               embeddings[j].slideId # id
            sorted == SortByScore(Similarities(embeddings, last))
        IN  Edge(Top3(sorted), Bottom3(sorted))]

\* one call of a function per behaviour, on any input
CalculateSimilarityCall(embedding1, embedding2) ==
    /\ ai = NULL
    /\ ai' = [op |-> "calculateSimilarity",
              embedding1 |-> embedding1, embedding2 |-> embedding2,
              result |-> CalculateSimilarity(embedding1, embedding2)]
    /\ UNCHANGED <<session, metadata, uploads>>

GenerateAdjacencyListCall(embeddings) ==
    /\ ai = NULL
    /\ ai' = [op |-> "generateAdjacencyList", embeddings |-> embeddings,
              result |-> GenerateAdjacencyList(embeddings)]
    /\ UNCHANGED <<session, metadata, uploads>>

AiNext ==
    \/ \E e1 \in Vectors, e2 \in Vectors : CalculateSimilarityCall(e1, e2)
    \/ \E embeddings \in Decks : GenerateAdjacencyListCall(embeddings)

AiSpec == Init /\ [][AiNext]_vars

(***************************************************************************)
(* The deck API of the worker (handleDeckAPI): one deck, its KV entry      *)
(* deck:<id>:metadata, and the upload-slide requests for it.  Each request *)
(* runs in its own invocation of the worker; the awaits on R2 and KV are   *)
(* the points where the invocations interleave.                            *)
(***************************************************************************)
\* POST /api/decks/create: the metadata of a new deck
CreatedMetadata == [slideCount |-> 0, status |-> "pending"]

CreateDeck ==
    /\ metadata = NoDeck
    /\ metadata' = CreatedMetadata
    /\ UNCHANGED <<session, uploads, ai>>

\* an upload-slide request: where it stands, the metadata it read from KV
\* (NoDeck: none), the metadata it is writing, the status of its response
Upload(pc, read, write, status) ==
    [pc |-> pc, read |-> read, write |-> write, status |-> status]

\* metadata.slideCount++
Incremented(m) == [m EXCEPT !.slideCount = m.slideCount + 1]

Replaced(i, u) == [uploads EXCEPT ![i] = u]

\* lines 270-288: the form is read; without slideId or image the answer is
\* 400, otherwise the image is put to R2
UploadSlide(complete) ==
    /\ Len(uploads) < MaxUploads
    /\ uploads' = Append(uploads,
                         IF complete THEN Upload("r2", NoDeck, NoDeck, 0)
                         ELSE Upload("responded", NoDeck, NoDeck, 400))
    /\ UNCHANGED <<session, metadata, ai>>

\* lines 284-292: env.SLIDES.put returns and the metadata is asked for, or
\* it throws and the answer is 500
SlideStored(i, ok) ==
    /\ i \in DOMAIN uploads
    /\ uploads[i].pc = "r2"
    /\ uploads' = Replaced(i, IF ok THEN Upload("get", NoDeck, NoDeck, 0)
                              ELSE Upload("responded", NoDeck, NoDeck, 500))
    /\ UNCHANGED <<session, metadata, ai>>

\* lines 292-296: env.DECKS.get returns what the key holds now; with a
\* deck the count is incremented and the put is issued, without one the
\* answer is success
MetadataRead(i) ==
    /\ i \in DOMAIN uploads
    /\ uploads[i].pc = "get"
    /\ uploads' = Replaced(i, IF metadata = NoDeck
                              THEN Upload("responded", NoDeck, NoDeck, 200)
                              ELSE Upload("put", metadata,
                                          Incremented(metadata), 0))
    /\ UNCHANGED <<session, metadata, ai>>

\* lines 296-302: env.DECKS.put replaces the key and the answer is success
MetadataWritten(i) ==
    /\ i \in DOMAIN uploads
    /\ uploads[i].pc = "put"
    /\ metadata' = uploads[i].write
    /\ uploads' = Replaced(i, Upload("responded", uploads[i].read,
                                     uploads[i].write, 200))
    /\ UNCHANGED <<session, ai>>

UploadNext ==
    \/ CreateDeck
    \/ \E complete \in BOOLEAN : UploadSlide(complete)
    \/ \E i \in 1..MaxUploads, ok \in BOOLEAN : SlideStored(i, ok)
    \/ \E i \in 1..MaxUploads : MetadataRead(i)
    \/ \E i \in 1..MaxUploads : MetadataWritten(i)

UploadSpec == Init /\ [][UploadNext]_vars

(***************************************************************************)
(* alarm() on an object whose alarm is not pending: the handler is a       *)
(* public method, and the runtime calls it on whatever the storage holds.  *)
(* No game is started here, so no alarm is ever set: the object holds no   *)
(* session at all, or one that waits.                                      *)
(***************************************************************************)
AlarmCall ==
    /\ alarm = 0
    /\ LET rc == IF roomCode = NullStr
                 THEN RecoveredRoomCode(roomCode, do_metadata) ELSE roomCode
           L == EnsureGameStateLoaded(gameState, rc, do_metadata, game_session)
           o == AlarmHandler(L.gameState, game_session, adjacency, now)
       IN  /\ gameState' = o.gameState
           /\ roomCode' = L.roomCode
           /\ do_metadata' = L.do_metadata
           /\ game_session' = o.game_session
           /\ alarm' = o.alarm
           /\ winner' = o.winner
           /\ effects' = o.effects
           /\ request' = [op |-> "alarm", loaded |-> (gameState = NULL)]
           /\ response' = NULL
    /\ UNCHANGED <<adjacency, now, inflight, sockets>>
    /\ UNCHANGED <<failing, aux>>

StrayNext ==
    \/ Initialize
    \/ Recreate
    \/ \E u \in Voters, c \in Choices : Vote(u, c)
    \/ GetStatus
    \/ AlarmCall
    \/ \E c \in ViewerConns : Attach(c)
    \/ \E c \in ViewerConns : Detach(c)
    \/ \E c \in ViewerConns : SendFails(c)
    \/ \E c \in ViewerConns, t \in MessageTypes : WebSocketMessage(c, t)

StraySpec == Init /\ [][StrayNext]_vars

(***************************************************************************)
(* A game under fair delivery of its alarm: time passes until the pending  *)
(* alarm is due, and a due alarm is delivered.  The session is created     *)
(* once (createGameSession draws a fresh room code), and the host, the     *)
(* voters and the runtime act as they like.                                *)
(***************************************************************************)
CreateGameSession ==
    /\ game_session[RoomCode] = NULL
    /\ Initialize

LiveNext ==
    \/ CreateGameSession
    \/ Recreate
    \/ Tick
    \/ \E u \in Voters, c \in Choices : Vote(u, c)
    \/ \E a \in StartGameArgs : StartGameCall(a[1], a[2])
    \/ \E call \in Suspended, ok \in BOOLEAN : StartGameMetadata(call, ok)
    \/ \E call \in Suspended, ok \in BOOLEAN : StartGameAdjacency(call, ok)
    \/ Alarm

LiveSpec == Init /\ [][LiveNext]_vars /\ WF_vars(Tick) /\ WF_vars(Alarm)

(***************************************************************************)
(* Properties.                                                             *)
(***************************************************************************)
\* the session row of the room
Row == game_session[RoomCode]

\* C1: while a startGame call is suspended on a deck lookup, no step of
\* another mutating operation (vote, startGame, the alarm, initialize) takes
\* effect on the session: its memory, its tables and its timer stay as the
\* suspended call left them.
C1_NoInterleaving ==
    [][(inflight # EmptyBag
          /\ request'.op \in {"vote", "startGame", "alarm", "initialize"})
        => UNCHANGED <<gameState, adjacency, game_session, do_metadata, alarm>>]_vars

\* C2: the voters set has as many members as votes.logical + votes.chaotic;
\* an accepted vote is the vote of a voter not yet in the set and adds one
\* unit to the chosen tally only; no other step changes a tally except to
\* reset both tallies together with the voters set.
C2_VotersMatchTally ==
    /\ [](gameState # NULL =>
            Cardinality(gameState.voters) =
                gameState.votes.logical + gameState.votes.chaotic)
    /\ [][(request'.op = "vote" /\ response'.status = 200) =>
            /\ gameState # NULL
            /\ request'.userId \notin gameState.voters
            /\ gameState'.voters = gameState.voters \cup {request'.userId}
            /\ gameState'.votes[request'.choice] = gameState.votes[request'.choice] + 1
            /\ \A c \in Choices \ {request'.choice} :
                   gameState'.votes[c] = gameState.votes[c]]_vars
    /\ [][(request'.op # "vote" /\ gameState # NULL /\ gameState' # NULL) =>
            \/ /\ gameState'.votes = gameState.votes
               /\ gameState'.voters = gameState.voters
            \/ /\ gameState'.votes = NoVotes
               /\ gameState'.voters = {}]_vars

C2_Witness ==
    /\ gameState # NULL
    /\ gameState.votingOpen
    /\ gameState.voters = {"v1", "v2"}
    /\ gameState.votes = [logical |-> 1, chaotic |-> 1]

\* C3: a vote call by a voter already recorded in the open round fails with
\* AlreadyVoted, whatever the choice, and leaves the tallies and the voters
\* set (the whole in-memory state) and the session row as they were.
C3_DuplicateVoteRejected ==
    [][(request'.op = "vote" /\ gameState # NULL /\ gameState.votingOpen
          /\ request'.userId \in gameState.voters)
        => /\ response' = Reply("vote", 400, AlreadyVotedError)
           /\ gameState' = gameState
           /\ game_session' = game_session
           /\ effects' = <<>>]_vars

\* v1 voted logical and the second call, with the other choice, was rejected
C3_Witness ==
    /\ request.op = "vote"
    /\ request.userId = "v1"
    /\ request.choice = "chaotic"
    /\ response = Reply("vote", 400, AlreadyVotedError)
    /\ gameState.voters = {"v1"}
    /\ gameState.votes = [logical |-> 1, chaotic |-> 0]

\* C4: a vote is accepted only while votingOpen is true; a vote call made
\* while votingOpen is false (or with no state in memory, which reloads with
\* votingOpen false) fails with VotingClosed, broadcasts nothing and changes
\* neither the tallies, the voters set, the phase, the timer nor the session
\* row.
C4_VoteNeedsVotingOpen ==
    [][request'.op = "vote" =>
        /\ response'.status = 200 => (gameState # NULL /\ gameState.votingOpen)
        /\ (gameState = NULL \/ ~gameState.votingOpen) =>
            /\ response' = Reply("vote", 400, VotingClosedError)
            /\ effects' = <<>>
            /\ game_session' = game_session
            /\ alarm' = alarm
            /\ gameState # NULL => gameState' = gameState
            /\ (gameState = NULL /\ gameState' # NULL) =>
                /\ Row # NULL
                /\ gameState'.phase = Row.phase
                /\ gameState'.votes = NoVotes
                /\ gameState'.voters = {}
                /\ ~gameState'.votingOpen]_vars

\* a vote was rejected in phase presenting, after a round had closed
C4_Witness ==
    /\ request.op = "vote"
    /\ response = Reply("vote", 400, VotingClosedError)
    /\ gameState # NULL
    /\ gameState.phase = "presenting"
    /\ gameState.slideCount = 2
    /\ gameState.voters # {}

\* C5: finished is terminal and waiting is left for good: once the session
\* row is in phase finished no startGame, vote, getStatus, subscribe or alarm
\* step changes the phase, and no such step brings the phase back to
\* waiting.
C5_FinishedIsTerminal ==
    [][(Row # NULL
          /\ request'.op \in {"startGame", "startGame:resume", "vote",
                              "getStatus", "fetch", "alarm"})
        => /\ Row.phase = "finished" => Row'.phase = "finished"
           /\ Row.phase # "waiting" => Row'.phase # "waiting"]_vars

\* C6: a startGame call that finds the session in phase presenting, voting
\* or finished ends at once with an error and leaves the phase, maxSlides,
\* timerEnd, the pending alarm and the adjacency table unchanged.
C6_StartGameNeedsWaiting ==
    [][(request'.op = "startGame" /\ Loaded.gameState # NULL
          /\ Loaded.gameState.phase # "waiting")
        => /\ response' # NULL
           /\ response'.status # 200
           /\ gameState' = Loaded.gameState
           /\ UNCHANGED <<game_session, alarm, adjacency, inflight>>]_vars

\* C7: when the alarm fires while the phase is presenting and slideCount >=
\* maxSlides, the session is finished at the end of the step, in memory and
\* in the row, with currentSlide, usedSlides and slideCount unchanged, no
\* alarm armed and voting not open (no vote can be accepted).
C7_FinalSlideSkipsVoting ==
    [][(request'.op = "alarm" /\ Loaded.gameState # NULL
          /\ Loaded.gameState.phase = "presenting"
          /\ Loaded.gameState.slideCount >= Loaded.gameState.maxSlides)
        => /\ gameState'.phase = "finished"
           /\ Row'.phase = "finished"
           /\ gameState'.currentSlide = Loaded.gameState.currentSlide
           /\ gameState'.usedSlides = Loaded.gameState.usedSlides
           /\ gameState'.slideCount = Loaded.gameState.slideCount
           /\ alarm' = 0
           /\ ~gameState'.votingOpen]_vars

\* C8: when the alarm fires while the phase is presenting and slideCount <
\* maxSlides, the step ends in phase voting with both tallies 0, no voters,
\* votingOpen true, timerEnd and the alarm 10 seconds ahead, and the row in
\* phase voting; the slide is unchanged.
C8_VotingRoundOpens ==
    [][(request'.op = "alarm" /\ Loaded.gameState # NULL
          /\ Loaded.gameState.phase = "presenting"
          /\ Loaded.gameState.slideCount < Loaded.gameState.maxSlides)
        => /\ gameState'.phase = "voting"
           /\ gameState'.votes = [logical |-> 0, chaotic |-> 0]
           /\ gameState'.voters = {}
           /\ gameState'.votingOpen
           /\ gameState'.timerEnd = now + 10000
           /\ alarm' = now + 10000
           /\ Row'.phase = "voting"
           /\ Row'.timer_end = now + 10000
           /\ gameState'.currentSlide = Loaded.gameState.currentSlide
           /\ \A v \in Voters :
                  VoteResult(gameState', v, "logical").reply.status = 200]_vars

\* the second round of a game has just opened
C8_Witness ==
    /\ request.op = "alarm"
    /\ gameState # NULL
    /\ gameState.phase = "voting"
    /\ gameState.votingOpen
    /\ gameState.voters = {}
    /\ gameState.slideCount = 2
    /\ alarm = now + 10000

\* C9: when the alarm fires in phase voting the winner is logical exactly
\* when votes.logical > votes.chaotic (a tie goes to chaotic), and a slide
\* the game advances to comes from the winner's list of the current slide.
C9_WinnerRule ==
    [][(request'.op = "alarm" /\ Loaded.gameState # NULL
          /\ Loaded.gameState.phase = "voting")
        => LET votes == Loaded.gameState.votes
               cur == Loaded.gameState.currentSlide
           IN  /\ winner' \in Choices
               /\ winner' = "logical" <=> votes.logical > votes.chaotic
               /\ votes.logical = votes.chaotic => winner' = "chaotic"
               /\ gameState'.currentSlide # cur =>
                      gameState'.currentSlide \in Range(adjacency[cur][winner'])]_vars

\* a tie of one vote each was decided for chaotic
C9_Witness ==
    /\ request.op = "alarm"
    /\ winner = "chaotic"
    /\ gameState.votes = [logical |-> 1, chaotic |-> 1]
    /\ gameState.currentSlide = "slide_8"

\* C10: in every state in which the alarm will call it (phase voting),
\* getNextSlide(choice) is the first slide, in rank order, of the current
\* slide's list for that choice that is not in usedSlides, and null when
\* the list has no such slide or the current slide has no row in the
\* adjacency table; only that choice's list is read.
C10_NextSlide ==
    (gameState # NULL /\ gameState.phase = "voting") =>
        \A choice \in Choices :
            LET cur == gameState.currentSlide
                options == IF cur \in DOMAIN adjacency
                           THEN adjacency[cur][choice] ELSE <<>>
                unused == {i \in 1..Len(options) :
                              options[i] \notin Range(gameState.usedSlides)}
            IN  GetNextSlide(gameState, adjacency, choice) =
                    IF unused = {} THEN NullStr
                    ELSE options[CHOOSE i \in unused : \A j \in unused : i <= j]

\* C11: in every step other than initialize (which begins a session), the
\* usedSlides of the state the step finds is contained in the usedSlides it
\* leaves, in memory and in the session row; the current slide is always one
\* of the used slides, and a slide that becomes current was not used before,
\* so no slide is current twice.
C11_UsedSlidesGrow ==
    /\ [](gameState # NULL =>
            gameState.currentSlide \in Range(gameState.usedSlides))
    /\ [][request'.op # "initialize" =>
            /\ (Row # NULL /\ Row' # NULL) =>
                   Range(Row.used_slides) \subseteq Range(Row'.used_slides)
            /\ (Loaded.gameState # NULL /\ gameState' # NULL) =>
                /\ Range(Loaded.gameState.usedSlides)
                       \subseteq Range(gameState'.usedSlides)
                /\ gameState'.currentSlide # Loaded.gameState.currentSlide =>
                       gameState'.currentSlide
                           \notin Range(Loaded.gameState.usedSlides)]_vars

\* the second advance skipped slide_1, first in slide_2's list but used
C11_Witness ==
    /\ request.op = "alarm"
    /\ gameState # NULL
    /\ gameState.currentSlide = "slide_3"
    /\ gameState.usedSlides = <<"slide_1", "slide_2", "slide_3">>

\* C12: whenever a handler has finished, slideCount is the number of elements
\* of usedSlides and currentSlide is one of them: in memory, in the session
\* row, and in the state a reload builds from the row.
C12_SlideCountMatches ==
    /\ gameState # NULL =>
        /\ gameState.slideCount = Cardinality(Range(gameState.usedSlides))
        /\ gameState.currentSlide \in Range(gameState.usedSlides)
    /\ Row # NULL =>
        /\ Row.slide_count = Cardinality(Range(Row.used_slides))
        /\ Row.current_slide \in Range(Row.used_slides)
        /\ StateFromRow(Row).slideCount =
               Cardinality(Range(StateFromRow(Row).usedSlides))

\* the alarm reloaded the session from its row and advanced to a third slide
C12_Witness ==
    /\ request.op = "alarm"
    /\ request.loaded
    /\ gameState # NULL
    /\ gameState.slideCount = 3
    /\ Len(gameState.usedSlides) = 3

C14_MaxSlidesCeiling ==
    /\ [](gameState # NULL => gameState.slideCount <= gameState.maxSlides)
    /\ [][(Row # NULL /\ Row.phase # "waiting" /\ request'.op # "initialize")
            => Row'.max_slides = Row.max_slides]_vars

\* C15: every broadcast of a step carries what the session record holds at
\* the moment of sending (the row last saved in the step, or else the row the
\* step found): the phase, current slide and slide count of a full state, the
\* slide of a slide change, and the tally a reload of the record would give.
C15_PersistBeforeBroadcast ==
    [][\A i \in 1..Len(effects') :
         effects'[i].e = "broadcast" =>
            LET saves == {j \in 1..(i - 1) : effects'[j].e = "save"}
                record == IF saves = {} THEN Row
                          ELSE effects'[CHOOSE j \in saves :
                                           \A k \in saves : k <= j].row
                data == effects'[i].data
            IN  /\ record # NULL
                /\ effects'[i].type = "gameState" =>
                    /\ data.phase = record.phase
                    /\ data.currentSlide = record.current_slide
                    /\ data.slideCount = record.slide_count
                    /\ data.votes = StateFromRow(record).votes
                /\ effects'[i].type = "slideChange" =>
                       data = record.current_slide
                /\ effects'[i].type = "voteUpdate" =>
                       data = StateFromRow(record).votes]_vars

\* C16: when the object is constructed again, the state the next operation
\* loads answers every vote as the state in memory before would have, shows
\* the same status, and is taken by the alarm to the same outcome.
C16_RecreationTransparent ==
    [][(request'.op = "constructor" /\ gameState # NULL) =>
        /\ Loaded'.gameState # NULL
        /\ \A u \in Voters, c \in Choices :
               VoteResult(Loaded'.gameState, u, c) = VoteResult(gameState, u, c)
        /\ PublicGameState(Loaded'.gameState, now) = PublicGameState(gameState, now)
        /\ AlarmHandler(Loaded'.gameState, game_session, adjacency', now)
               = AlarmHandler(gameState, game_session, adjacency, now)]_vars

\* C17: once initialize has stored the room code, every alarm step ends with
\* this.roomCode the stored room code and acts on the session row kept under
\* it: a state it has to load is the one built from that row, the state it
\* leaves has that sessionId, and the row of the object's own id is never
\* read into the state nor written.
C17_AlarmActsOnOwnRecord ==
    [][(request'.op = "alarm" /\ do_metadata = RoomCode) =>
        /\ roomCode' = RoomCode
        /\ Row # NULL
        /\ game_session[DoId] = NULL
        /\ game_session'[DoId] = NULL
        /\ gameState' # NULL
        /\ gameState'.sessionId = RoomCode
        /\ gameState = NULL =>
            LET o == AlarmHandler(StateFromRow(Row), game_session, adjacency, now)
            IN  /\ gameState' = o.gameState
                /\ game_session' = o.game_session
                /\ alarm' = o.alarm]_vars

\* after a recreation the alarm loaded the room's row (phase presenting) and
\* opened the voting round
C17_Witness ==
    /\ request.op = "alarm"
    /\ request.loaded
    /\ roomCode = RoomCode
    /\ gameState # NULL
    /\ gameState.sessionId = RoomCode
    /\ gameState.phase = "voting"
    /\ Row.phase = "voting"

\* C18: the object has one alarm; a step that arms one leaves the deadline it
\* armed last as the only pending one, an alarm step consumes the deadline
\* that fired, and once the session row is in phase finished no step arms an
\* alarm.
C18_OneTimer ==
    [][/\ \A i \in 1..Len(effects') :
            (effects'[i].e = "setAlarm"
               /\ \A j \in (i + 1)..Len(effects') : effects'[j].e # "setAlarm")
            => alarm' = effects'[i].at
       /\ request'.op = "alarm" => alarm' # alarm
       /\ (Row # NULL /\ Row.phase = "finished") =>
            /\ alarm' \in {alarm, 0}
            /\ \A i \in 1..Len(effects') : effects'[i].e # "setAlarm"]_vars

\* C19: a getStatus step writes nothing: the tables, the alarm and the
\* suspended calls are unchanged, a state in memory (tallies, voters,
\* votingOpen) is unchanged, nothing is broadcast, and the state the next
\* operation works on is the one it would have worked on without the call.
C19_GetStatusPure ==
    [][request'.op = "getStatus" =>
        /\ UNCHANGED <<adjacency, game_session, do_metadata, alarm, now,
                       inflight, sockets>>
        /\ gameState # NULL => gameState' = gameState
        /\ gameState' = Loaded.gameState
        /\ Loaded' = Loaded
        /\ effects' = <<>>]_vars

\* getStatus answered in an open round with a vote recorded and a timer pending
C19_Witness ==
    /\ request.op = "getStatus"
    /\ response = Reply("getStatus", 200, "")
    /\ gameState.votingOpen
    /\ gameState.voters = {"v1"}
    /\ gameState.votes = [logical |-> 0, chaotic |-> 1]
    /\ alarm # 0

\* C20: a vote or startGame call on an object with no session row and no
\* state in memory ends with the session-not-found error, writes no row and
\* arms no alarm.
C20_UninitializedFails ==
    [][(request'.op \in {"vote", "startGame"} /\ gameState = NULL
          /\ \A id \in SessionIds : game_session[id] = NULL)
        => /\ response' # NULL
           /\ response'.status # 200
           /\ response'.error \in {NotInitializedError, SessionNotFoundError}
           /\ gameState' = NULL
           /\ game_session' = game_session
           /\ alarm' = alarm
           /\ inflight' = inflight]_vars

C22_SendFailureIsolated ==
    [][(sockets \cap failing # {}
          /\ \E i \in 1..Len(effects') : effects'[i].e = "broadcast")
        => /\ \A i \in 1..Len(effects') :
                  effects'[i].e = "broadcast" =>
                      effects'[i].to = sockets \ failing
           /\ request'.op = "vote" =>
                LET r == VoteResult(Loaded.gameState, request'.userId,
                                    request'.choice)
                IN  /\ response' = Reply("vote", 200, "")
                    /\ gameState' = r.gameState
                    /\ gameState'.votes[request'.choice] =
                           Loaded.gameState.votes[request'.choice] + 1
           /\ request'.op = "alarm" =>
                LET o == AlarmHandler(Loaded.gameState, game_session,
                                      adjacency, now)
                IN  /\ gameState' = o.gameState
                    /\ game_session' = o.game_session
                    /\ alarm' = o.alarm
                    /\ gameState'.phase # Loaded.gameState.phase
                    /\ Row'.phase = gameState'.phase
           /\ request'.op = "startGame" =>
                /\ response' = Reply("startGame", 200, "")
                /\ gameState' = StartedState(Loaded.gameState,
                                             request'.maxSlides, now)
                /\ Row' = GameRow(gameState')
                /\ alarm' = now + 45000]_vars

\* a vote was accepted and its tally reached c2 while sends to c1 throw
C22_Witness ==
    /\ request.op = "vote"
    /\ response = Reply("vote", 200, "")
    /\ sockets = {"c1", "c2"}
    /\ failing = {"c1"}
    /\ Len(effects) = 1
    /\ effects[1].e = "broadcast"
    /\ effects[1].to = {"c2"}

\* C23 as stated: every fetch step that accepts a connection sends that
\* connection one gameState event.
C23_EveryAttachSendsSnapshot ==
    [][request'.op = "fetch" =>
        /\ Len(effects') = 1
        /\ effects'[1].e = "send"
        /\ effects'[1].type = "gameState"]_vars

\* C23, amended: a fetch step on an object that has a session (in memory or
\* in its row) accepts the connection and sends it, as the only event of the
\* step, a gameState event with the phase, currentSlide, votes, slideCount and
\* votingOpen of the state the step leaves; on an object with no session
\* nothing is sent.  No broadcast reaches a connection that had not been
\* accepted before the broadcasting step, so the snapshot comes first.
C23_AttachSendsSessionSnapshot ==
    [][/\ request'.op = "fetch" =>
            /\ request'.conn \notin sockets
            /\ sockets' = sockets \cup {request'.conn}
            /\ gameState' = Loaded.gameState
            /\ gameState' = NULL => effects' = <<>>
            /\ gameState' # NULL =>
                /\ Len(effects') = 1
                /\ effects'[1].e = "send"
                /\ effects'[1].type = "gameState"
                /\ effects'[1].to = {request'.conn}
                /\ effects'[1].data.phase = gameState'.phase
                /\ effects'[1].data.currentSlide = gameState'.currentSlide
                /\ effects'[1].data.votes = gameState'.votes
                /\ effects'[1].data.slideCount = gameState'.slideCount
                /\ effects'[1].data.votingOpen = gameState'.votingOpen
       /\ \A i \in 1..Len(effects') :
            effects'[i].e = "broadcast" => effects'[i].to \subseteq sockets]_vars

\* c2 joined an open round late and was sent the tally so far
C23_Witness ==
    /\ request = [op |-> "fetch", conn |-> "c2"]
    /\ sockets = {"c1", "c2"}
    /\ Len(effects) = 1
    /\ effects[1].to = {"c2"}
    /\ effects[1].data.phase = "voting"
    /\ effects[1].data.votingOpen
    /\ effects[1].data.votes = [logical |-> 1, chaotic |-> 0]

\* C24: a ping message is answered with a pong and nothing else happens: the
\* state in memory stays exactly as it was (it is not loaded from storage)
\* and no table and no alarm changes.
C24_PingTouchesNothing ==
    [][(request'.op = "message" /\ request'.type = "ping") =>
        /\ Len(effects') = 1
        /\ effects'[1].type = "pong"
        /\ gameState' = gameState
        /\ roomCode' = roomCode
        /\ UNCHANGED <<game_session, do_metadata, adjacency, alarm>>]_vars

\* C25: for a deck of at least four slides (their ids are distinct),
\* generateAdjacencyList gives every slide an entry with exactly 3 logical and
\* exactly 3 chaotic neighbours, each list without repetition, and no slide
\* is in its own logical or chaotic list.
C25_ThreeNeighboursEach ==
    (ai # NULL /\ ai.op = "generateAdjacencyList" /\ Len(ai.embeddings) >= 4) =>
        /\ DOMAIN ai.result =
               {ai.embeddings[i].slideId : i \in 1..Len(ai.embeddings)}
        /\ \A id \in DOMAIN ai.result :
            /\ Len(ai.result[id].logical) = 3
            /\ Len(ai.result[id].chaotic) = 3
            /\ Cardinality(Range(ai.result[id].logical)) = 3
            /\ Cardinality(Range(ai.result[id].chaotic)) = 3
            /\ id \notin Range(ai.result[id].logical)
            /\ id \notin Range(ai.result[id].chaotic)

\* a deck of five slides in which slide_1 has different logical and chaotic
\* neighbours
C25_Witness ==
    /\ ai # NULL
    /\ ai.op = "generateAdjacencyList"
    /\ Len(ai.embeddings) = 5
    /\ ai.embeddings[1].embedding = <<1, 0>>
    /\ ai.result["slide_1"].logical = <<"slide_2", "slide_3", "slide_4">>
    /\ ai.result["slide_1"].chaotic = <<"slide_5", "slide_4", "slide_3">>

\* C26: calculateSimilarity of two embeddings of different lengths is the
\* 'same dimension' error; of two embeddings of the same length one of which
\* is the zero vector it is the number 0.
C26_DimensionAndZero ==
    (ai # NULL /\ ai.op = "calculateSimilarity") =>
        /\ Len(ai.embedding1) # Len(ai.embedding2) =>
               ai.result = [error |-> "Embeddings must have the same dimension"]
        /\ (Len(ai.embedding1) = Len(ai.embedding2)
              /\ \/ \A i \in 1..Len(ai.embedding1) : ai.embedding1[i] = 0
                 \/ \A j \in 1..Len(ai.embedding2) : ai.embedding2[j] = 0) =>
               ai.result = [dot |-> 0, mag2 |-> 1]

\* the zero vector against a vector that is not zero
C26_Witness ==
    /\ ai # NULL
    /\ ai.op = "calculateSimilarity"
    /\ ai.embedding1 = <<0, 0>>
    /\ ai.embedding2 = <<1, -1>>
    /\ ai.result = Score(0, 1)

\* C27: once every upload-slide request has been answered, the slideCount of
\* the deck's metadata is the number of successful requests that found the
\* deck (each of them incremented it)
C27_UploadsCounted ==
    (/\ metadata # NoDeck
     /\ \A i \in DOMAIN uploads : uploads[i].pc = "responded")
    => metadata.slideCount =
           Cardinality({i \in DOMAIN uploads :
                            /\ uploads[i].status = 200
                            /\ uploads[i].read # NoDeck})

\* C28: when the alarm fires in phase voting with slideCount < maxSlides and
\* the winning choice's list of the current slide has a slide N that is not
\* used (the first such), the step leaves currentSlide = N, N among the used
\* slides, slideCount one higher, phase presenting, voting closed, the alarm
\* set 45 s ahead, the row saved so, and a gameState event with this state
\* and a slideChange event with N broadcast.
C28_AdvanceToNextSlide ==
    [][(request'.op = "alarm" /\ Loaded.gameState # NULL
          /\ Loaded.gameState.phase = "voting"
          /\ Loaded.gameState.slideCount < Loaded.gameState.maxSlides
          /\ Loaded.gameState.currentSlide \in DOMAIN adjacency)
        => LET gs == Loaded.gameState
               options == adjacency[gs.currentSlide][Winner(gs.votes)]
               unused == {i \in 1..Len(options) :
                             options[i] \notin Range(gs.usedSlides)}
               N == options[CHOOSE i \in unused : \A j \in unused : i <= j]
           IN  unused # {} =>
                 /\ gameState'.currentSlide = N
                 /\ Range(gameState'.usedSlides) = Range(gs.usedSlides) \cup {N}
                 /\ gameState'.slideCount = gs.slideCount + 1
                 /\ gameState'.phase = "presenting"
                 /\ ~gameState'.votingOpen
                 /\ gameState'.timerEnd = now + 45000
                 /\ alarm' = now + 45000
                 /\ Row'.current_slide = N
                 /\ Row'.phase = "presenting"
                 /\ Row'.slide_count = gs.slideCount + 1
                 /\ \E i \in DOMAIN effects' :
                        effects'[i] = [e |-> "broadcast", type |-> "slideChange",
                                       data |-> N, to |-> sockets \ failing]
                 /\ \E i \in DOMAIN effects' :
                        effects'[i] = [e |-> "broadcast", type |-> "gameState",
                                       data |-> PublicGameState(gameState', now),
                                       to |-> sockets \ failing]]_vars

\* a logical win on slide_1 has just moved the game to slide_2
C28_Witness ==
    /\ request.op = "alarm"
    /\ winner = "logical"
    /\ gameState # NULL
    /\ gameState.phase = "presenting"
    /\ gameState.currentSlide = "slide_2"
    /\ gameState.usedSlides = <<"slide_1", "slide_2">>
    /\ alarm = now + 45000
    /\ Len(effects) = 4

\* C29: when the alarm fires on an object constructed again during a voting
\* round (it has to load the state, and the state it loads is in phase
\* voting), the step closes the voting, decides the winner from the tally
\* of the loaded state, and leaves the phase presenting with slideCount one
\* higher, or finished: in memory and in the session row, never voting.
C29_RecreatedVotingAlarm ==
    [][(request'.op = "alarm" /\ gameState = NULL
          /\ Loaded.gameState # NULL /\ Loaded.gameState.phase = "voting")
        => /\ gameState' # NULL
           /\ ~gameState'.votingOpen
           /\ winner' = Winner(Loaded.gameState.votes)
           /\ gameState'.phase \in {"presenting", "finished"}
           /\ gameState'.phase = "presenting" =>
                  gameState'.slideCount = Loaded.gameState.slideCount + 1
           /\ gameState'.phase = "finished" =>
                  gameState'.slideCount = Loaded.gameState.slideCount
           /\ Row'.phase = gameState'.phase
           /\ Row'.slide_count = gameState'.slideCount]_vars

\* C30: alarm() on an object with no stored room code and no session row
\* does nothing: no row is written, no room code is stored, no alarm is
\* set, nothing is saved, sent or broadcast, the object still holds no
\* state, and the handler returns normally.
C30_StrayAlarmIsNoOp ==
    [][(request'.op = "alarm" /\ do_metadata = NullStr
          /\ \A id \in SessionIds : game_session[id] = NULL)
        => /\ \A id \in SessionIds : game_session'[id] = NULL
           /\ do_metadata' = NullStr
           /\ roomCode' = NullStr
           /\ gameState' = NULL
           /\ alarm' = 0
           /\ effects' = <<>>
           /\ response' = NULL
           /\ UNCHANGED <<adjacency, sockets, inflight>>]_vars

\* the alarm handler has run on an object that holds nothing, with a viewer
\* attached to hear a broadcast
C30_Witness ==
    /\ request.op = "alarm"
    /\ request.loaded
    /\ do_metadata = NullStr
    /\ \A id \in SessionIds : game_session[id] = NULL
    /\ gameState = NULL
    /\ sockets # {}
    /\ alarm = 0

\* C31: when the alarm fires in phase voting and the adjacency lookup of the
\* current slide fails (getNextSlide throws, alarm() catches), the state the
\* step leaves has the phase, currentSlide, usedSlides, slideCount,
\* votingOpen and votes of the state it found.
C31_FailedFireLeavesState ==
    [][(request'.op = "alarm" /\ Loaded.gameState # NULL
          /\ Loaded.gameState.phase = "voting"
          /\ GetNextSlide(Loaded.gameState, adjacency,
                          Winner(Loaded.gameState.votes)) = Throw)
        => /\ gameState' # NULL
           /\ gameState'.phase = Loaded.gameState.phase
           /\ gameState'.currentSlide = Loaded.gameState.currentSlide
           /\ gameState'.usedSlides = Loaded.gameState.usedSlides
           /\ gameState'.slideCount = Loaded.gameState.slideCount
           /\ gameState'.votingOpen = Loaded.gameState.votingOpen
           /\ gameState'.votes = Loaded.gameState.votes]_vars

\* C32: a session in phase presenting or voting always has an alarm pending:
\* an alarm step that fails does not leave it without one.
C32_FailedFireIsRetried ==
    [][(request'.op = "alarm" /\ gameState' # NULL
          /\ gameState'.phase \in {"presenting", "voting"})
        => alarm' # 0]_vars

\* C33: timerEnd is 0 in phases waiting and finished, and in phases
\* presenting and voting it is the time of the pending alarm: in memory and
\* in the session row.
C33_TimerEndMatchesAlarm ==
    /\ gameState # NULL =>
        /\ gameState.phase \in {"waiting", "finished"} => gameState.timerEnd = 0
        /\ gameState.phase \in {"presenting", "voting"} =>
               gameState.timerEnd = alarm
    /\ Row # NULL =>
        /\ Row.phase \in {"waiting", "finished"} => Row.timer_end = 0
        /\ Row.phase \in {"presenting", "voting"} => Row.timer_end = alarm

\* C34: once the game has started (the phase is not waiting), the adjacency
\* table has a row for currentSlide.
C34_CurrentSlideInGraph ==
    (gameState # NULL /\ gameState.phase # "waiting") =>
        gameState.currentSlide \in DOMAIN adjacency

\* C35: every initialize step, whatever state it finds, leaves the same
\* state in memory and in the session row: phase waiting, currentSlide
\* slide_1, usedSlides {slide_1}, slideCount 1, no votes, no voters, voting
\* closed, timerEnd 0 (and maxSlides 10).
C35_InitializeOverwrites ==
    [][request'.op = "initialize" =>
        /\ gameState' = [sessionId    |-> RoomCode,
                         currentSlide |-> "slide_1",
                         usedSlides   |-> <<"slide_1">>,
                         phase        |-> "waiting",
                         votes        |-> [logical |-> 0, chaotic |-> 0],
                         voters       |-> {},
                         votingOpen   |-> FALSE,
                         timerEnd     |-> 0,
                         slideCount   |-> 1,
                         maxSlides    |-> 10]
        /\ Row' = GameRow(gameState')
        /\ Row'.phase = "waiting"
        /\ Row'.current_slide = "slide_1"
        /\ Row'.slide_count = 1
        /\ Row'.timer_end = 0]_vars

\* initialize has overwritten a game that was running: its alarm is still
\* pending
C35_Witness ==
    /\ request.op = "initialize"
    /\ gameState.phase = "waiting"
    /\ gameState.currentSlide = "slide_1"
    /\ alarm = 100000

\* C36: an accepted vote adds one to the chosen tally and leaves the other,
\* adds the voter to voters, and broadcasts one voteUpdate event with the
\* new tally to every attached viewer whose connection takes a send; a
\* rejected vote changes nothing and sends nothing.
C36_AcceptedVoteBroadcast ==
    [][request'.op = "vote" =>
        LET gs == Loaded.gameState
            u == request'.userId
            c == request'.choice
        IN  IF response'.status = 200
            THEN /\ gameState'.votes[c] = gs.votes[c] + 1
                 /\ \A d \in Choices \ {c} : gameState'.votes[d] = gs.votes[d]
                 /\ gameState'.voters = gs.voters \cup {u}
                 /\ u \notin gs.voters
                 /\ effects' = <<[e |-> "broadcast", type |-> "voteUpdate",
                                  data |-> gameState'.votes,
                                  to |-> sockets \ failing]>>
            ELSE /\ gameState' = gs
                 /\ effects' = <<>>]_vars

\* the second vote of a round was accepted and sent to both viewers
C36_Witness ==
    /\ request.op = "vote"
    /\ response.status = 200
    /\ gameState.votes = [logical |-> 1, chaotic |-> 1]
    /\ sockets = ViewerConns
    /\ failing = {}
    /\ Len(effects) = 1
    /\ effects[1].to = ViewerConns

\* C37: after every initialize, startGame and alarm step that leaves a
\* state in memory, the session row has the phase, currentSlide, usedSlides,
\* slideCount, maxSlides and timerEnd of that state.
C37_RowMatchesMemory ==
    [][(request'.op \in {"initialize", "startGame", "startGame:resume", "alarm"}
          /\ gameState' # NULL)
        => /\ Row' # NULL
           /\ Row'.phase = gameState'.phase
           /\ Row'.current_slide = gameState'.currentSlide
           /\ Range(Row'.used_slides) = Range(gameState'.usedSlides)
           /\ Row'.slide_count = gameState'.slideCount
           /\ Row'.max_slides = gameState'.maxSlides
           /\ Row'.timer_end = gameState'.timerEnd]_vars

\* the alarm has opened the second voting round and the row says so
C37_Witness ==
    /\ request.op = "alarm"
    /\ gameState # NULL
    /\ gameState.phase = "voting"
    /\ gameState.slideCount = 2
    /\ Row.phase = "voting"
    /\ Row.slide_count = 2
    /\ Row.timer_end = gameState.timerEnd
    /\ Row.timer_end = now + 10000

\* C38: in every state, votingOpen implies phase voting, so vote accepts no
\* vote while the phase is waiting, presenting or finished.
C38_VotingOpenOnlyInVoting ==
    gameState # NULL =>
        /\ gameState.votingOpen => gameState.phase = "voting"
        /\ gameState.phase # "voting" =>
               \A u \in Voters, c \in Choices :
                   VoteResult(gameState, u, c).reply.status # 200

\* C39: in every state a handler leaves, an alarm is pending exactly when
\* the phase of the session (in memory, and in the session row) is
\* presenting or voting.
C39_AlarmPendingIffRunning ==
    /\ gameState # NULL =>
           (alarm # 0 <=> gameState.phase \in {"presenting", "voting"})
    /\ Row # NULL =>
           (alarm # 0 <=> Row.phase \in {"presenting", "voting"})

\* C40: under fair delivery of the alarm, a session whose row says
\* presenting or voting (a game that has started) eventually has a row that
\* says finished, unless the pending alarm lies beyond the time the model
\* follows (MaxNow).
C40_StartedGameFinishes ==
    (Row # NULL /\ Row.phase \in {"presenting", "voting"})
        ~> ((Row # NULL /\ Row.phase = "finished") \/ alarm > MaxNow)

====
